---- MODULE Spec2Model ----
(***************************************************************************)
(* Market analysis agent of the A2A advisory-trading sample                *)
(* (iac/agents/market_analysis/main/main.py): input extraction, prompt     *)
(* building, tag extraction and the analyze orchestration.                 *)
(*                                                                         *)
(* Text is modelled as a sequence of atoms (indivisible chunks of          *)
(* characters); concatenation is \o and "is a substring of" is "is a       *)
(* contiguous subsequence of".                                             *)
(***************************************************************************)
EXTENDS Integers, Sequences, FiniteSets, TLC

VARIABLES
    task,          \* the Task object handed to analyze (mutated in place)
    task0,         \* the task as it was when the caller first handed it over
    entry,         \* the task as it was when the current invocation began
    pc,            \* position of the handler
    prompt_input,  \* analyze: prompt_input
    prompt,        \* analyze: prompt
    calls,         \* model calls of the current invocation, in order
    summary,       \* analyze: summary
    tag_data,      \* analyze: tag_data / extract_tags: return value
    raised,        \* exception that escaped to the caller (NoExc = none)
    caught,        \* exception caught by analyze's except clause (NoExc = none)
    uuids,         \* number of uuid4() values drawn so far
    clock,         \* reading of datetime.utcnow()
    invocations    \* completed or escaped invocations on this task

vars == <<task, task0, entry, pc, prompt_input, prompt, calls, summary, tag_data,
          raised, caught, uuids, clock, invocations>>

(***************************************************************************)
(* Bounds of the model.                                                    *)
(***************************************************************************)
MaxParts == 2
MaxTags == 8
MaxInvocations == 2

(***************************************************************************)
(* Python values.  One record shape for every value so that any two can be *)
(* compared: t is the type, s the text of a str / the digits of a number,  *)
(* items the elements of a list or the values of a dict, keys the keys of  *)
(* a dict (parallel to items).                                             *)
(***************************************************************************)
Val(t, s, items, keys) == [t |-> t, s |-> s, items |-> items, keys |-> keys]
Str(atoms) == Val("str", atoms, <<>>, <<>>)
Num(digits) == Val("num", <<digits>>, <<>>, <<>>)
PyNone == Val("none", <<"None">>, <<>>, <<>>)
List(xs) == Val("list", <<>>, xs, <<>>)
Dict(ks, vs) == Val("dict", <<>>, vs, ks)
\* "key not in the mapping": what dict.get replaces by its default
Absent == Val("absent", <<>>, <<>>, <<>>)

\* dict.get(key, default) on a field that is Absent when the key is missing
Get(v, default) == IF v = Absent THEN default ELSE v

\* Python truthiness
Truthy(v) ==
    CASE v.t = "str" -> v.s # <<>>
      [] v.t = "num" -> v.s # <<"0">>
      [] v.t = "list" -> v.items # <<>>
      [] v.t = "dict" -> v.keys # <<>>
      [] OTHER -> FALSE

RECURSIVE JoinAtoms(_, _)
\* sep.join(texts) for a sequence of texts
JoinAtoms(texts, sep) ==
    IF texts = <<>> THEN <<>>
    ELSE IF Len(texts) = 1 THEN texts[1]
    ELSE texts[1] \o sep \o JoinAtoms(Tail(texts), sep)

RECURSIVE PyRepr(_)
\* repr(v)
PyRepr(v) ==
    CASE v.t = "str" -> <<"'">> \o v.s \o <<"'">>
      [] v.t = "list" ->
            <<"[">> \o JoinAtoms([i \in 1..Len(v.items) |-> PyRepr(v.items[i])], <<", ">>)
                     \o <<"]">>
      [] v.t = "dict" ->
            <<"{">> \o JoinAtoms([i \in 1..Len(v.keys) |->
                                    <<"'", v.keys[i], "'", ": ">> \o PyRepr(v.items[i])],
                                 <<", ">>)
                     \o <<"}">>
      [] OTHER -> v.s

\* str(v), also what an f-string substitutes for {v}
PyStr(v) == IF v.t = "str" THEN v.s ELSE PyRepr(v)

\* needle is a substring of hay
Contains(hay, needle) ==
    \E i \in 0..(Len(hay) - Len(needle)) :
        \A j \in 1..Len(needle) : hay[i + j] = needle[j]

(***************************************************************************)
(* A2A types: Part, Message, Task.                                         *)
(***************************************************************************)
\* DataPart.data: the keys the agent reads (Absent when missing) and whether the
\* mapping holds any other key; {} is all-Absent with no other key
Data(sector, focus, riskFactors, summaryLength, extraContext, others) ==
    [sector |-> sector, focus |-> focus, riskFactors |-> riskFactors,
     summaryLength |-> summaryLength, extraContext |-> extraContext, others |-> others]
EmptyData == Data(Absent, Absent, Absent, Absent, Absent, FALSE)

TextPart(text) == [kind |-> "text", text |-> text, data |-> EmptyData]
DataPart(data) == [kind |-> "data", text |-> <<>>, data |-> data]
FilePart == [kind |-> "file", text |-> <<>>, data |-> EmptyData]

Message(role, parts) == [role |-> role, parts |-> parts]

\* an Optional[list]: None or a list
NoneList == [isNone |-> TRUE, items |-> <<>>]
SomeList(xs) == [isNone |-> FALSE, items |-> xs]

(***************************************************************************)
(* extract_user_input_from_task                                            *)
(***************************************************************************)
InputData(error, userContext, sector, focus, riskFactors, summaryLength, extraContext) ==
    [error |-> error, userContext |-> userContext, sector |-> sector, focus |-> focus,
     riskFactors |-> riskFactors, summaryLength |-> summaryLength,
     extraContext |-> extraContext]
EmptyInput == InputData(Absent, Absent, Absent, Absent, Absent, Absent, Absent)
ErrorInput(msg) == [EmptyInput EXCEPT !.error = Str(<<msg>>)]

\* the body of the for loop, for one part
ProcessPart(acc, part) ==
    LET a1 == IF part.kind = "text"
              THEN [acc EXCEPT !.userContext = Str(part.text)]
              ELSE acc
        data == part.data
    IN  IF part.kind = "data" /\ data # EmptyData
        THEN [a1 EXCEPT
                !.sector = Get(data.sector, Str(<<"UNKNOWN_SECTOR">>)),
                !.focus = Get(data.focus, Str(<<"UNKNOWN_FOCUS">>)),
                !.riskFactors = Get(data.riskFactors, List(<<>>)),
                !.summaryLength = Get(data.summaryLength, Num("200")),
                !.extraContext = IF data.extraContext # Absent
                                 THEN data.extraContext
                                 ELSE a1.extraContext]
        ELSE a1

RECURSIVE ProcessParts(_, _)
\* the for loop over latest_user_message.parts, in order
ProcessParts(acc, parts) ==
    IF parts = <<>> THEN acc
    ELSE ProcessParts(ProcessPart(acc, Head(parts)), Tail(parts))

\* [msg for msg in task.history if msg.role.value == "user"]
UserMessages(history) == SelectSeq(history, LAMBDA m : m.role = "user")

extract_user_input_from_task(t) ==
    IF t.isNone \/ t.history.isNone \/ t.history.items = <<>>
    THEN ErrorInput("No task or history found")
    ELSE LET user_messages == UserMessages(t.history.items) IN
         IF user_messages = <<>>
         THEN ErrorInput("No user messages found")
         ELSE ProcessParts(EmptyInput, user_messages[Len(user_messages)].parts)

(***************************************************************************)
(* MarketAnalysisAgent.build_prompt                                        *)
(***************************************************************************)
\* an exception: its type and str(e)
Exc(type, msg) == [type |-> type, msg |-> msg]
NoExc == Exc("", <<>>)
TypeError == Exc("TypeError", <<"sequence item: expected str instance">>)
AttributeError == Exc("AttributeError", <<"object has no attribute">>)
JSONDecodeError == Exc("JSONDecodeError", <<"Expecting value">>)

\* the outcome of a call: a value, or a raised exception
Ok(v) == [exc |-> NoExc, val |-> v]
Raise(e) == [exc |-> e, val |-> <<>>]
Raised(r) == r.exc # NoExc

\* CommaJoin with "," as the separator
CommaJoin_NoSpace(v) ==
    CASE v.t = "list" ->
            IF \A i \in 1..Len(v.items) : v.items[i].t = "str"
            THEN Ok(JoinAtoms([i \in 1..Len(v.items) |-> v.items[i].s], <<",">>))
            ELSE Raise(TypeError)
      [] OTHER -> Raise(TypeError)

\* ", ".join(v): v must be an iterable of str
CommaJoin(v) ==
    CASE v.t = "list" ->
            IF \A i \in 1..Len(v.items) : v.items[i].t = "str"
            THEN Ok(JoinAtoms([i \in 1..Len(v.items) |-> v.items[i].s], <<", ">>))
            ELSE Raise(TypeError)
      [] v.t = "dict" -> Ok(JoinAtoms([i \in 1..Len(v.keys) |-> <<v.keys[i]>>], <<", ">>))
      [] v.t = "str" -> Ok(JoinAtoms([i \in 1..Len(v.s) |-> <<v.s[i]>>], <<", ">>))
      [] OTHER -> Raise(TypeError)

build_prompt(input_) ==
    LET extra_context == Get(input_.extraContext, PyNone)
        user_context == Get(input_.userContext, PyNone)
        sector == Get(input_.sector, Str(<<"technology sector">>))
        focus == Get(input_.focus, Str(<<"overall outlook">>))
        risk_factors == Get(input_.riskFactors, List(<<>>))
        summary_length == Get(input_.summaryLength, Num("150"))
        risks == IF Truthy(risk_factors) THEN CommaJoin(risk_factors)
                 ELSE Ok(<<"market uncertainty">>)
        body ==
            <<"Knowing the user request: ">> \o PyStr(user_context)
            \o <<". Write a concise, coherent, and natural-sounding market summary (about ">>
            \o PyStr(summary_length) \o <<" words", ") for the ">>
            \o PyStr(sector) \o <<" sector", ". Focus on ">> \o PyStr(focus)
            \o <<". Discuss key trends, opportunities, and threats in a single paragraph. If the user request has the intention of making a trade but did not specify which stock or company, then the summary should name out what is the company that matches user description for investment. Do NOT include a title, bullet points, or any formatting-write in natural English prose only. Consider risk factors such as: ">>
            \o risks.val \o <<".">>
    IN  IF Raised(risks) THEN Raise(risks.exc)
        ELSE IF Truthy(extra_context)
        THEN Ok(body \o <<" Here is more context: ">> \o PyStr(extra_context) \o <<".">>)
        ELSE Ok(body)

(***************************************************************************)
(* The text of a tag-extraction response, as a sequence of lexical tokens: *)
(* JSON punctuation, string / number / null literals, and prose words.     *)
(* String literals of the model hold no brace.                             *)
(***************************************************************************)
Tok(k, v) == [k |-> k, v |-> v]
P(c) == Tok("punct", c)
S(x) == Tok("string", x)
N(d) == Tok("number", d)
Null == Tok("null", "null")
W(w) == Tok("word", w)

IsPunct(toks, i, c) == i <= Len(toks) /\ toks[i] = P(c)

\* d[k] = v on a dict under construction: a repeated key keeps its place, the last value wins
DictPut(d, k, v) ==
    IF \E i \in 1..Len(d.keys) : d.keys[i] = k
    THEN Dict(d.keys, [i \in 1..Len(d.keys) |-> IF d.keys[i] = k THEN v ELSE d.items[i]])
    ELSE Dict(Append(d.keys, k), Append(d.items, v))

\* d.get(k, default) on a dict value
DictGet(d, k, default) ==
    IF \E i \in 1..Len(d.keys) : d.keys[i] = k
    THEN d.items[CHOOSE i \in 1..Len(d.keys) : d.keys[i] = k]
    ELSE default

\* a parse position: the value read and the index of the next token
PFail == [ok |-> FALSE, val |-> PyNone, next |-> 0]
POk(v, n) == [ok |-> TRUE, val |-> v, next |-> n]

RECURSIVE ParseValue(_, _), ParseItems(_, _, _), ParseMembers(_, _, _)
\* json: one value starting at token i
ParseValue(toks, i) ==
    IF i > Len(toks) THEN PFail
    ELSE LET tk == toks[i] IN
         CASE tk.k = "string" -> POk(Str(IF tk.v = "" THEN <<>> ELSE <<tk.v>>), i + 1)
           [] tk.k = "number" -> POk(Num(tk.v), i + 1)
           [] tk.k = "null" -> POk(PyNone, i + 1)
           [] tk = P("[") ->
                IF IsPunct(toks, i + 1, "]") THEN POk(List(<<>>), i + 2)
                ELSE ParseItems(toks, i + 1, <<>>)
           [] tk = P("{") ->
                IF IsPunct(toks, i + 1, "}") THEN POk(Dict(<<>>, <<>>), i + 2)
                ELSE ParseMembers(toks, i + 1, Dict(<<>>, <<>>))
           [] OTHER -> PFail

\* json: the elements of an array, a value expected at token i
\* (r ranges over a one-element set so that the value is parsed once)
ParseItems(toks, i, acc) ==
    CHOOSE out \in
        { IF ~r.ok THEN PFail
          ELSE IF IsPunct(toks, r.next, ",")
               THEN ParseItems(toks, r.next + 1, Append(acc, r.val))
          ELSE IF IsPunct(toks, r.next, "]")
               THEN POk(List(Append(acc, r.val)), r.next + 1)
          ELSE PFail : r \in {ParseValue(toks, i)} } : TRUE

\* json: the members of an object, a key expected at token i
ParseMembers(toks, i, acc) ==
    IF ~(i <= Len(toks) /\ toks[i].k = "string" /\ IsPunct(toks, i + 1, ":")) THEN PFail
    ELSE CHOOSE out \in
        { IF ~r.ok THEN PFail
          ELSE CHOOSE out2 \in
            { IF IsPunct(toks, r.next, ",") THEN ParseMembers(toks, r.next + 1, d)
              ELSE IF IsPunct(toks, r.next, "}") THEN POk(d, r.next + 1)
              ELSE PFail : d \in {DictPut(acc, toks[i].v, r.val)} } : TRUE
          : r \in {ParseValue(toks, i + 2)} } : TRUE

\* json.loads(text): the whole text must be one value
json_loads(toks) ==
    LET r == ParseValue(toks, 1) IN
    IF r.ok /\ r.next = Len(toks) + 1 THEN Ok(r.val) ELSE Raise(JSONDecodeError)

\* re_search with a greedy pattern: the leftmost "{" up to the last "}"
re_search_Greedy(toks) ==
    LET opens == {i \in 1..Len(toks) : toks[i] = P("{")}
        first == CHOOSE i \in opens : \A j \in opens : i <= j
        closes == {j \in 1..Len(toks) : toks[j] = P("}") /\ j > first}
        last == CHOOSE j \in closes : \A k \in closes : j >= k
    IN  IF opens = {} \/ closes = {}
        THEN [found |-> FALSE, text |-> <<>>]
        ELSE [found |-> TRUE, text |-> SubSeq(toks, first, last)]

\* re.search(r'\{[\s\S]*?}', text): the leftmost "{" up to the first "}" after it
re_search(toks) ==
    LET opens == {i \in 1..Len(toks) : toks[i] = P("{")}
        first == CHOOSE i \in opens : \A j \in opens : i <= j
        closes == {j \in 1..Len(toks) : toks[j] = P("}") /\ j > first}
        last == CHOOSE j \in closes : \A k \in closes : j <= k
    IN  IF opens = {} \/ closes = {}
        THEN [found |-> FALSE, text |-> <<>>]
        ELSE [found |-> TRUE, text |-> SubSeq(toks, first, last)]

(***************************************************************************)
(* MarketAnalysisAgent.extract_tags                                        *)
(***************************************************************************)
TagData(tags, sentiment) == [tags |-> tags, sentiment |-> sentiment]
DefaultTagData == TagData(List(<<>>), Str(<<"unknown">>))
\* no tag data (a text part's data, a value not yet computed)
NoTagData == TagData(PyNone, PyNone)

\* TagPrompt with the summary left out of the prompt
TagPrompt_NoSummary(summary_) ==
    <<"Analyze the following market summary and return exactly 4-7 key themes as a list of 'tags', and the overall sentiment (positive, neutral, or negative) for investors.">>

\* the prompt of the second model call
TagPrompt(summary_) ==
    <<"Analyze the following market summary and return exactly 4-7 key themes as a list of 'tags', and the overall sentiment (positive, neutral, or negative) for investors. Respond with nothing except a single JSON object with this format:\n{\"tags\": [\"tag1\", \"tag2\", \"tag3\"], \"sentiment\": \"positive\"}\nNo title. No explanation. No extra text.\n\nSummary:\n\"">>
    \o summary_ \o <<"\"">>

\* the body of the outer try, given the outcome of self.strands_agent(prompt)
ExtractTagsTry(outcome) ==
    IF Raised(outcome) THEN Raise(outcome.exc)
    ELSE LET result == outcome.val
             direct == json_loads(result)
             match == re_search(result)
             parsed == CHOOSE p \in {IF ~Raised(direct) THEN direct
                                     ELSE IF match.found THEN json_loads(match.text)
                                     ELSE Ok(Dict(<<>>, <<>>))} : TRUE
         IN  IF Raised(parsed) THEN Raise(parsed.exc)
             ELSE IF parsed.val.t # "dict" THEN Raise(AttributeError)
             ELSE LET tags == DictGet(parsed.val, "tags", List(<<>>))
                      sentiment == DictGet(parsed.val, "sentiment", Str(<<"unknown">>))
                  IN  Ok(TagData(
                         IF tags.t # "list"
                         THEN (IF Truthy(tags) THEN List(<<tags>>) ELSE List(<<>>))
                         ELSE tags,
                         IF sentiment.t # "str" THEN Str(PyStr(sentiment)) ELSE sentiment))

\* extract_tags without its outer except clause
extract_tags_NoCatch(outcome) == ExtractTagsTry(outcome)

\* extract_tags, given the outcome of its model call: except Exception -> the default
extract_tags(outcome) ==
    LET r == ExtractTagsTry(outcome) IN
    IF Raised(r) THEN Ok(DefaultTagData) ELSE r

(***************************************************************************)
(* Task, TaskStatus, Artifact.                                             *)
(***************************************************************************)
\* a part of an artifact or of a status message
ArtText(text) == [kind |-> "text", text |-> text, data |-> NoTagData]
ArtData(data) == [kind |-> "data", text |-> <<>>, data |-> data]

Artifact(artifactId, name, description, parts) ==
    [artifactId |-> artifactId, name |-> name, description |-> description, parts |-> parts]

StatusMessage(parts, messageId, taskId) ==
    [role |-> "agent", parts |-> parts, messageId |-> messageId, taskId |-> taskId]
TaskStatus(state, message, timestamp) ==
    [state |-> state, message |-> message, timestamp |-> timestamp]
\* the status of a task the caller has just submitted
SubmittedStatus == TaskStatus("submitted", StatusMessage(<<>>, 0, ""), 0)

Task(id, history, artifacts) ==
    [isNone |-> FALSE, id |-> id, history |-> history, status |-> SubmittedStatus,
     artifacts |-> artifacts, kind |-> "task"]
\* None passed where a Task is expected
NoTask ==
    [isNone |-> TRUE, id |-> "", history |-> NoneList, status |-> SubmittedStatus,
     artifacts |-> NoneList, kind |-> ""]

(***************************************************************************)
(* Inputs: the tasks a caller sends and what the model answers.            *)
(***************************************************************************)
EnergyData ==
    Data(Str(<<"energy">>), Str(<<"renewables">>),
         List(<<Str(<<"regulation">>), Str(<<"oil prices">>)>>), Num("100"), Absent, FALSE)

DataDicts ==
    { EmptyData,
      EnergyData,
      [EnergyData EXCEPT !.extraContext = Str(<<"earnings call notes">>)],
      Data(Str(<<"retail">>), Str(<<"margins">>), List(<<Str(<<"inflation">>)>>),
           Num("50"), Absent, FALSE),
      Data(Str(<<"retail">>), Absent, List(<<Num("1")>>), Absent, Absent, FALSE),
      Data(Absent, Str(<<"rates">>), Num("5"), Absent, Absent, FALSE),
      Data(Absent, Absent, Absent, Absent, Absent, TRUE) }

InputParts ==
    {TextPart(<<"Should I buy energy stocks?">>), TextPart(<<"Sell retail.">>), FilePart}
    \cup {DataPart(d) : d \in DataDicts}

\* the sequences over S of length at most n
SeqsUpTo(S_, n) == UNION {[1..k -> S_] : k \in 0..n}

AgentMessage == Message("agent", <<TextPart(<<"How can I help?">>)>>)
OlderUserMessage ==
    Message("user", <<TextPart(<<"Earlier question">>),
                      DataPart(Data(Str(<<"banking">>), Str(<<"rates">>),
                                    List(<<Str(<<"defaults">>)>>), Num("75"),
                                    Str(<<"older context">>), FALSE))>>)

\* the histories around a latest user message m
HistoriesOf(m) ==
    { <<m>>, <<OlderUserMessage, m>>, <<m, AgentMessage>>, <<OlderUserMessage, AgentMessage, m>> }

InputHistories ==
    {NoneList, SomeList(<<>>), SomeList(<<AgentMessage>>)}
    \cup {SomeList(h) : h \in UNION {HistoriesOf(Message("user", ps)) :
                                        ps \in SeqsUpTo(InputParts, MaxParts)}}

InputTasks == {NoTask} \cup {Task("task-1", h, NoneList) : h \in InputHistories}

\* exceptions the model call raises; str(e) may be empty
ModelErrors ==
    {Exc("ThrottlingException", <<"Rate exceeded">>), Exc("Exception", <<>>)}

\* summaries the model returns
Summaries == {<<"Energy stocks rallied on policy support.">>, <<>>}

TagNames == <<"a", "b", "c", "d", "e", "f", "g", "h", "i", "j">>
RECURSIVE TagItems(_)
TagItems(n) ==
    IF n = 0 THEN <<>>
    ELSE IF n = 1 THEN <<S(TagNames[1])>>
    ELSE TagItems(n - 1) \o <<P(","), S(TagNames[n])>>
\* the text ["a","b",...] with n tags
TagListToks(n) == <<P("[")>> \o TagItems(n) \o <<P("]")>>
\* the value the text above parses to
TagListVal(n) == List([i \in 1..n |-> Str(<<TagNames[i]>>)])

TagsMember(v) == <<S("tags"), P(":")>> \o v
SentimentMember(v) == <<S("sentiment"), P(":")>> \o v
Object(body) == <<P("{")>> \o body \o <<P("}")>>

TagsTexts ==
    {TagListToks(n) : n \in 0..MaxTags}
    \cup { <<S("macro")>>, <<S("")>>, <<N("0")>>, <<N("7")>>, <<Null>>,
           Object(<<S("k"), P(":"), N("1")>>) }
SentimentTexts ==
    { <<S("positive")>>, <<N("1")>>, <<Null>>, <<P("["), S("mixed"), P("]")>> }

ObjectBodies ==
    {<<>>}
    \cup {TagsMember(t) : t \in TagsTexts}
    \cup {SentimentMember(s_) : s_ \in SentimentTexts}
    \cup {TagsMember(t) \o <<P(",")>> \o SentimentMember(s_) :
            t \in TagsTexts, s_ \in SentimentTexts}
    \cup { SentimentMember(<<S("neutral")>>) \o <<P(",")>> \o TagsMember(TagListToks(1))
             \o <<P(",")>> \o SentimentMember(<<S("negative")>>),
           <<S("meta"), P(":")>> \o Object(<<S("tags"), P(":"), S("inner")>>)
             \o <<P(",")>> \o TagsMember(TagListToks(2)),
           TagsMember(TagListToks(1)) \o <<P(",")>>,
           <<W("tags"), P(":"), S("a")>> }

Prefixes ==
    { <<>>, <<W("Here is the result:")>>, <<P("[")>>,
      <<W("Themes"), P("{"), W("see below"), P("}")>> }
Suffixes == { <<>>, <<W("Hope this helps.")>>, <<P("]")>> }

NonObjectResponses ==
    { <<>>, <<W("I cannot answer that.")>>, <<N("42")>>, <<Null>>, <<S("positive")>>,
      <<P("["), S("a"), P(","), S("b"), P("]")>>,
      <<P("{"), S("tags"), P(":"), P("["), S("a"), P("]")>>,
      <<P("}"), W("tags"), P("{")>> }

Responses ==
    {pre \o Object(b) \o suf : pre \in Prefixes, b \in ObjectBodies, suf \in Suffixes}
    \cup NonObjectResponses

\* one model call: where it is made, the prompt sent, what came back
Call(site, prompt_, outcome) == [site |-> site, prompt |-> prompt_, outcome |-> outcome]

(***************************************************************************)
(* Specification of input extraction and prompt building alone.            *)
(***************************************************************************)
InitInput ==
    /\ task \in InputTasks
    /\ task0 = task
    /\ entry = task
    /\ pc = "idle"
    /\ prompt_input = EmptyInput
    /\ prompt = <<>>
    /\ calls = <<>>
    /\ summary = <<>>
    /\ tag_data = NoTagData
    /\ raised = NoExc
    /\ caught = NoExc
    /\ uuids = 0
    /\ clock = 0
    /\ invocations = 0

\* prompt_input = extract_user_input_from_task(task)
ExtractInput ==
    /\ pc = "idle"
    /\ prompt_input' = extract_user_input_from_task(task)
    /\ pc' = "extracted"
    /\ UNCHANGED <<task, task0, entry, prompt, calls, summary, tag_data, raised, caught,
                   uuids, clock, invocations>>

\* prompt = self.build_prompt(prompt_input)
BuildPrompt ==
    /\ pc = "extracted"
    /\ \E r \in {build_prompt(prompt_input)} :
       \/ /\ ~Raised(r)
          /\ prompt' = r.val
          /\ pc' = "built"
          /\ UNCHANGED raised
       \/ /\ Raised(r)
          /\ raised' = r.exc
          /\ pc' = "escaped"
          /\ UNCHANGED prompt
    /\ UNCHANGED <<task, task0, entry, prompt_input, calls, summary, tag_data, caught,
                   uuids, clock, invocations>>

NextInput == ExtractInput \/ BuildPrompt
SpecInput == InitInput /\ [][NextInput]_vars

(***************************************************************************)
(* Specification of extract_tags alone.                                    *)
(***************************************************************************)
InitTags ==
    /\ task = NoTask
    /\ task0 = task
    /\ entry = task
    /\ pc = "tags_call"
    /\ prompt_input = EmptyInput
    /\ prompt = <<>>
    /\ calls = <<>>
    /\ summary \in Summaries
    /\ tag_data = NoTagData
    /\ raised = NoExc
    /\ caught = NoExc
    /\ uuids = 0
    /\ clock = 0
    /\ invocations = 0

\* extract_tags(summary), its model call ending with `outcome`
ExtractTags(outcome) ==
    /\ pc = "tags_call"
    /\ calls' = Append(calls, Call("tags", TagPrompt(summary), outcome))
    /\ \E r \in {extract_tags(outcome)} :
       \/ /\ ~Raised(r)
          /\ tag_data' = r.val
          /\ pc' = "tagged"
          /\ UNCHANGED raised
       \/ /\ Raised(r)
          /\ raised' = r.exc
          /\ pc' = "escaped"
          /\ UNCHANGED tag_data
    /\ UNCHANGED <<task, task0, entry, prompt_input, prompt, summary, caught, uuids, clock,
                   invocations>>

TagsModelReturns == \E resp \in Responses : ExtractTags(Ok(resp))
TagsModelRaises == \E e \in ModelErrors : ExtractTags(Raise(e))

NextTags == TagsModelReturns \/ TagsModelRaises
SpecTags == InitTags /\ [][NextTags]_vars

(***************************************************************************)
(* MarketAnalysisAgent.analyze                                             *)
(***************************************************************************)
\* task.artifacts or []
OrEmpty(l) == IF l.isNone \/ l.items = <<>> THEN <<>> ELSE l.items

\* how a block of the handler ends: the exception it raised (NoExc = none), the task
\* as the block left it, and the number of uuid4() values drawn
BlockEnd(exc, t, u) == [exc |-> exc, task |-> t, uuids |-> u]

\* task.status = status; task.artifacts = task.artifacts or [];
\* task.artifacts.append(artifact); task.kind = "task"
SetResult(t, status, artifact) ==
    [t EXCEPT !.status = status,
              !.artifacts = SomeList(Append(OrEmpty(t.artifacts), artifact)),
              !.kind = "task"]

\* the try block after tag_data is known: the artifact, the message (task.id is read
\* after both uuids are drawn), the status, the update of the task
TryBlockTail(t, summary_, tag_data_, u, now) ==
    IF t.isNone THEN BlockEnd(AttributeError, t, u + 2)
    ELSE BlockEnd(NoExc,
            SetResult(t,
                TaskStatus("completed",
                    StatusMessage(<<ArtText(<<"Market summary successfully generated.">>)>>,
                                  u + 2, t.id),
                    now),
                Artifact(u + 1, "Market Summary", "Summary and tags generated by LLM",
                         <<ArtText(summary_), ArtData(tag_data_)>>)),
            u + 2)

\* ExceptBlock with "task.artifacts = [artifact]" in place of the append
ExceptBlock_Replacing(t, e, u, now) ==
    IF t.isNone THEN BlockEnd(AttributeError, t, u + 2)
    ELSE BlockEnd(NoExc,
            [t EXCEPT
                !.status = TaskStatus("failed", StatusMessage(<<ArtText(e.msg)>>, u + 2, t.id),
                                      now),
                !.artifacts = SomeList(<<Artifact(u + 1, "Error",
                                                  "Error encountered during market analysis",
                                                  <<ArtText(e.msg)>>)>>),
                !.kind = "task"],
            u + 2)

\* the except block, for the caught exception e
ExceptBlock(t, e, u, now) ==
    IF t.isNone THEN BlockEnd(AttributeError, t, u + 2)
    ELSE BlockEnd(NoExc,
            SetResult(t,
                TaskStatus("failed", StatusMessage(<<ArtText(e.msg)>>, u + 2, t.id), now),
                Artifact(u + 1, "Error", "Error encountered during market analysis",
                         <<ArtText(e.msg)>>)),
            u + 2)

\* try: ... except Exception as e: ...
TryExcept(tried, now) ==
    IF tried.exc = NoExc THEN tried
    ELSE ExceptBlock(tried.task, tried.exc, tried.uuids, now)

\* the tasks analyze is invoked on
AnalyzeHistories ==
    { NoneList, SomeList(<<>>), SomeList(<<AgentMessage>>),
      SomeList(<<Message("user", <<TextPart(<<"Should I buy energy stocks?">>)>>)>>),
      SomeList(<<OlderUserMessage, AgentMessage,
                 Message("user", <<TextPart(<<"Sell retail.">>), DataPart(EnergyData)>>)>>),
      SomeList(<<Message("user",
                    <<DataPart(Data(Str(<<"retail">>), Absent, List(<<Num("1")>>),
                                    Absent, Absent, FALSE))>>)>>) }

\* an artifact another agent left on the task
EarlierArtifact ==
    Artifact(0, "Market Summary", "Summary and tags generated by LLM",
             <<ArtText(<<"Yesterday's summary.">>), ArtData(DefaultTagData)>>)

AnalyzeTasks ==
    {NoTask}
    \cup {Task("task-1", h, a) :
            h \in AnalyzeHistories,
            a \in {NoneList, SomeList(<<>>), SomeList(<<EarlierArtifact>>)}}

\* the tag-extraction responses analyze is run with
AnalyzeResponses ==
    { Object(TagsMember(TagListToks(4)) \o <<P(",")>> \o SentimentMember(<<S("positive")>>)),
      <<W("Here is the result:")>>
        \o Object(TagsMember(TagListToks(4)) \o <<P(",")>> \o SentimentMember(<<S("positive")>>)),
      Object(TagsMember(TagListToks(MaxTags)) \o <<P(",")>> \o SentimentMember(<<N("1")>>)),
      Object(TagsMember(<<S("macro")>>)),
      <<P("[")>> \o Object(TagsMember(TagListToks(1))) \o <<P("]")>>,
      <<W("I cannot answer that.")>> }

Init ==
    /\ task \in AnalyzeTasks
    /\ task0 = task
    /\ entry = task
    /\ pc = "idle"
    /\ prompt_input = EmptyInput
    /\ prompt = <<>>
    /\ calls = <<>>
    /\ summary = <<>>
    /\ tag_data = NoTagData
    /\ raised = NoExc
    /\ caught = NoExc
    /\ uuids = 0
    /\ clock = 0
    /\ invocations = 0

\* the handler has returned or raised
Ended == pc \in {"done", "escaped"}

\* the end of an invocation: the task is returned, or an exception reaches the caller
Finish(end) ==
    /\ uuids' = end.uuids
    /\ clock' = clock + 1
    /\ \/ /\ end.exc = NoExc
          /\ task' = end.task
          /\ pc' = "done"
          /\ UNCHANGED raised
       \/ /\ end.exc # NoExc
          /\ raised' = end.exc
          /\ pc' = "escaped"
          /\ UNCHANGED task

\* analyze(task) is called; lines 95-97 run outside the try
Invoke ==
    /\ pc = "idle" \/ Ended
    /\ invocations < MaxInvocations
    /\ invocations' = invocations + 1
    /\ prompt_input' = extract_user_input_from_task(task)
    /\ calls' = <<>>
    /\ summary' = <<>>
    /\ tag_data' = NoTagData
    /\ caught' = NoExc
    /\ \E r \in {build_prompt(extract_user_input_from_task(task))} :
       \/ /\ ~Raised(r)
          /\ prompt' = r.val
          /\ pc' = "summary_call"
          /\ raised' = NoExc
       \/ /\ Raised(r)
          /\ prompt' = <<>>
          /\ raised' = r.exc
          /\ pc' = "escaped"
    /\ entry' = task
    /\ UNCHANGED <<task, task0, uuids, clock>>

\* response = self.strands_agent(prompt) raises e: the except block runs
SummaryRaises ==
    /\ pc = "summary_call"
    /\ \E e \in ModelErrors :
        /\ calls' = Append(calls, Call("summary", prompt, Raise(e)))
        /\ caught' = e
        /\ \E end \in {TryExcept(BlockEnd(e, task, uuids), clock)} : Finish(end)
    /\ UNCHANGED <<task0, entry, prompt_input, prompt, summary, tag_data, invocations>>

\* response = self.strands_agent(prompt) returns; summary = str(response)
SummaryReturns ==
    /\ pc = "summary_call"
    /\ \E text \in Summaries :
        /\ calls' = Append(calls, Call("summary", prompt, Ok(text)))
        /\ summary' = text
    /\ pc' = "tags_call"
    /\ UNCHANGED <<task, task0, entry, prompt_input, prompt, tag_data, raised, caught, uuids,
                   clock, invocations>>

\* tag_data = self.extract_tags(summary), its model call ending with `outcome`,
\* then the rest of the try block and, if it raises, the except block
AnalyzeTags(outcome) ==
    /\ pc = "tags_call"
    /\ calls' = Append(calls, Call("tags", TagPrompt(summary), outcome))
    /\ \E r \in {extract_tags(outcome)} :
       \E tried \in {IF Raised(r) THEN BlockEnd(r.exc, task, uuids)
                      ELSE TryBlockTail(task, summary, r.val, uuids, clock)} :
           /\ tag_data' = IF Raised(r) THEN tag_data ELSE r.val
           /\ caught' = tried.exc
           /\ \E end \in {TryExcept(tried, clock)} : Finish(end)
    /\ UNCHANGED <<task0, entry, prompt_input, prompt, summary, invocations>>

TagsReturn == \E resp \in AnalyzeResponses : AnalyzeTags(Ok(resp))
TagsRaise == \E e \in ModelErrors : AnalyzeTags(Raise(e))

Next == Invoke \/ SummaryRaises \/ SummaryReturns \/ TagsReturn \/ TagsRaise
Spec == Init /\ [][Next]_vars

(***************************************************************************)
(* Properties of analyze (specification Spec).                             *)
(***************************************************************************)
\* the summary call of the current invocation was made and raised
SummaryRaised == Len(calls) >= 1 /\ Raised(calls[1].outcome)
\* both model calls of the current invocation were made and returned
BothReturned ==
    Len(calls) = 2 /\ ~Raised(calls[1].outcome) /\ ~Raised(calls[2].outcome)

\* the artifacts on the task when the current invocation began
Before == OrEmpty(entry.artifacts)
Artifacts == task.artifacts.items
\* exactly one artifact was appended by the current invocation, the earlier ones kept
OneAppended == Len(Artifacts) = Len(Before) + 1 /\ SubSeq(Artifacts, 1, Len(Before)) = Before
Appended == Artifacts[Len(Artifacts)]

\* C1 as claimed: when the summary call raises e, the returned task is failed, has
\* exactly one artifact, named "Error" with text str(e), and has no "Market Summary"
\* artifact.
C1_Original ==
    (Ended /\ ~task0.isNone /\ SummaryRaised) =>
        /\ pc = "done"
        /\ task.status.state = "failed"
        /\ Len(Artifacts) = 1
        /\ Artifacts[1].name = "Error"
        /\ Artifacts[1].parts = <<ArtText(calls[1].outcome.exc.msg)>>
        /\ \A i \in 1..Len(Artifacts) : Artifacts[i].name # "Market Summary"

\* C1 amended: for every Task object, when the summary call raises e, analyze returns
\* the task failed, with exactly one artifact appended after those it already held,
\* and that artifact is named "Error", not "Market Summary", with the single text
\* part str(e).
C1_Amended ==
    (Ended /\ ~task0.isNone /\ SummaryRaised) =>
        /\ pc = "done"
        /\ task.status.state = "failed"
        /\ OneAppended
        /\ Appended.name = "Error"
        /\ Appended.parts = <<ArtText(calls[1].outcome.exc.msg)>>

\* the summary call raised on a task that already held an artifact
C1_Witness ==
    /\ pc = "done"
    /\ SummaryRaised
    /\ Before # <<>>
    /\ task.status.state = "failed"
    /\ calls[1].outcome.exc.msg # <<>>

\* C2: when both model calls return, whatever the text, the task is completed, one
\* artifact "Market Summary" was appended with the parts (text: the summary, data: tags
\* and sentiment), and the data part's tags list has between 0 and 7 entries.
C2_Claim ==
    (Ended /\ ~task0.isNone /\ BothReturned) =>
        /\ pc = "done"
        /\ task.status.state = "completed"
        /\ OneAppended
        /\ Appended.name = "Market Summary"
        /\ Len(Appended.parts) = 2
        /\ Appended.parts[1] = ArtText(calls[1].outcome.val)
        /\ Appended.parts[2].kind = "data"
        /\ Appended.parts[2].data.tags.t = "list"
        /\ Len(Appended.parts[2].data.tags.items) \in 0..7

\* C3: every invocation of analyze ends with the task completed or failed and lets no
\* exception reach the caller; a caught exception leaves the task failed with str(e)
\* in the artifact and in the status message.
C3_Claim ==
    Ended =>
        /\ pc = "done"
        /\ raised = NoExc
        /\ task.status.state \in {"completed", "failed"}
        /\ caught # NoExc =>
            /\ task.status.state = "failed"
            /\ Appended.parts = <<ArtText(caught.msg)>>
            /\ task.status.message.parts = <<ArtText(caught.msg)>>

\* the task is missing, has no history, or has no user-role message
NoUserInput(t) ==
    t.isNone \/ t.history.isNone \/ UserMessages(t.history.items) = <<>>

\* C4: for a task that is missing, without history or without user message, extraction
\* returns an error-flagged mapping, and analyze, when the model calls succeed,
\* reaches completed with the prompt builder's defaults and never raises.
C4_Claim ==
    NoUserInput(task0) =>
        /\ pc # "idle" => prompt_input.error # Absent
        /\ (Ended /\ BothReturned) =>
            /\ pc = "done"
            /\ raised = NoExc
            /\ task.status.state = "completed"
            /\ calls[1].prompt = build_prompt(EmptyInput).val

\* the k-th artifact added since the task was first handed over
Added(k) == Artifacts[Len(OrEmpty(task0.artifacts)) + k]

\* C8: analyze returns the task it was given, id and history unchanged, every earlier
\* artifact in place, and each invocation appends exactly one artifact: after n
\* invocations the list is the original one followed by n artifacts in invocation order.
C8_Claim ==
    Ended =>
        /\ task.id = task0.id
        /\ task.history = task0.history
        /\ Len(Artifacts) = Len(OrEmpty(task0.artifacts)) + invocations
        /\ SubSeq(Artifacts, 1, Len(OrEmpty(task0.artifacts))) = OrEmpty(task0.artifacts)
        /\ \A k \in 1..(invocations - 1) : Added(k).artifactId < Added(k + 1).artifactId

\* C10: within one invocation the model is called at most twice, the summary call
\* first; the tag call is made only after the summary call returned and its prompt
\* embeds that summary; after a summary call that raised no call follows; no call is
\* repeated.
C10_CallOrder ==
    /\ Len(calls) <= 2
    /\ Len(calls) >= 1 =>
        /\ calls[1].site = "summary"
        /\ calls[1].prompt = prompt
    /\ Len(calls) = 2 =>
        /\ calls[2].site = "tags"
        /\ ~Raised(calls[1].outcome)
        /\ Len(calls[2].prompt) = Len(calls[1].outcome.val) + 2
        /\ SubSeq(calls[2].prompt, 2, Len(calls[2].prompt) - 1) = calls[1].outcome.val
    /\ SummaryRaised => Len(calls) = 1 /\ Ended
    /\ (Len(calls) >= 1 /\ Raised(calls[Len(calls)].outcome)) => Ended

\* both calls were made, the summary non-empty, and the tag call raised
C10_Witness ==
    /\ Ended
    /\ Len(calls) = 2
    /\ calls[1].outcome.val # <<>>
    /\ Raised(calls[2].outcome)

(***************************************************************************)
(* Properties of extract_tags (specification SpecTags).                    *)
(***************************************************************************)
\* C5: extract_tags never raises: for every outcome of its model call it returns a
\* mapping with exactly the keys tags and sentiment, tags a list and sentiment a str.
C5_WellFormed ==
    pc # "tags_call" =>
        /\ pc = "tagged"
        /\ raised = NoExc
        /\ DOMAIN tag_data = {"tags", "sentiment"}
        /\ tag_data.tags.t = "list"
        /\ tag_data.sentiment.t = "str"

\* the response was the JSON text null, and the default came back
C5_Witness ==
    /\ pc = "tagged"
    /\ calls[1].outcome = Ok(<<Null>>)
    /\ tag_data = DefaultTagData

\* the response holds a "{" with a "}" somewhere after it
HasBraces(toks) ==
    \E i, j \in 1..Len(toks) : i < j /\ toks[i] = P("{") /\ toks[j] = P("}")
\* the first brace-delimited substring: from the first "{" to the nearest "}" after it
FirstBraces(toks) ==
    LET i == CHOOSE a \in 1..Len(toks) :
                toks[a] = P("{") /\ \A k \in 1..(a - 1) : toks[k] # P("{")
        j == CHOOSE b \in (i + 1)..Len(toks) :
                toks[b] = P("}") /\ \A k \in (i + 1)..(b - 1) : toks[k] # P("}")
    IN  SubSeq(toks, i, j)
\* the text parses as a JSON object
IsObject(toks) == ~Raised(json_loads(toks)) /\ json_loads(toks).val.t = "dict"
\* the tags and sentiment of a parsed object, normalised: tags that are no list
\* become [tags] when truthy and [] otherwise, a sentiment that is no str becomes its str
UsedFrom(obj) ==
    LET tags == DictGet(obj, "tags", List(<<>>))
        sentiment == DictGet(obj, "sentiment", Str(<<"unknown">>))
    IN  TagData(IF tags.t = "list" THEN tags
                ELSE IF Truthy(tags) THEN List(<<tags>>) ELSE List(<<>>),
                IF sentiment.t = "str" THEN sentiment ELSE Str(PyStr(sentiment)))
\* steps (2) and (3): the first brace-delimited substring if it parses, else the default
FromBraces(toks) ==
    IF HasBraces(toks) /\ IsObject(FirstBraces(toks))
    THEN UsedFrom(json_loads(FirstBraces(toks)).val)
    ELSE DefaultTagData

ProseThenObject ==
    <<W("Here is the result:")>>
    \o Object(TagsMember(TagListToks(4)) \o <<P(",")>> \o SentimentMember(<<S("positive")>>))

\* C6 as claimed: (1) a response that parses as a JSON object is used; (2) otherwise
\* the first brace-delimited substring is parsed and used; (3) if that fails, there
\* are no braces or the call raises, the result is the default.
C6_Original ==
    pc = "tagged" =>
        tag_data =
            IF Raised(calls[1].outcome) THEN DefaultTagData
            ELSE IF IsObject(calls[1].outcome.val)
                 THEN UsedFrom(json_loads(calls[1].outcome.val).val)
            ELSE FromBraces(calls[1].outcome.val)

\* C6 amended: (1) a response that parses as JSON is used as parsed: an object gives
\* its tags and sentiment, any other JSON value gives the default; (2) only when the
\* whole response is not valid JSON is the first brace-delimited substring parsed and
\* used, so prose followed by {"tags":[a,b,c,d],"sentiment":"positive"} yields those;
\* (3) if that fails, there are no braces or the call raises, the result is the default.
C6_Amended ==
    pc = "tagged" =>
        /\ tag_data =
            IF Raised(calls[1].outcome) THEN DefaultTagData
            ELSE IF IsObject(calls[1].outcome.val)
                 THEN UsedFrom(json_loads(calls[1].outcome.val).val)
            ELSE IF ~Raised(json_loads(calls[1].outcome.val)) THEN DefaultTagData
            ELSE FromBraces(calls[1].outcome.val)
        /\ calls[1].outcome = Ok(ProseThenObject) =>
            tag_data = TagData(TagListVal(4), Str(<<"positive">>))

\* the response was a JSON array holding a tags object, and the default came back
C6_Witness ==
    /\ pc = "tagged"
    /\ calls[1].outcome =
         Ok(<<P("[")>> \o Object(TagsMember(TagListToks(4)) \o <<P(",")>>
                                   \o SentimentMember(<<S("positive")>>)) \o <<P("]")>>)
    /\ tag_data = DefaultTagData

(***************************************************************************)
(* Properties of input extraction and prompt building (SpecInput).         *)
(***************************************************************************)
\* the parts of the latest user message
LatestParts ==
    LET user_messages == UserMessages(task.history.items)
    IN  user_messages[Len(user_messages)].parts
TextIdx == {i \in 1..Len(LatestParts) : LatestParts[i].kind = "text"}
\* the data parts the loop processes (a data part with an empty mapping is skipped)
DataIdx ==
    {i \in 1..Len(LatestParts) :
        LatestParts[i].kind = "data" /\ LatestParts[i].data # EmptyData}
LastOf(I) == CHOOSE i \in I : \A j \in I : j <= i
LastData == LatestParts[LastOf(DataIdx)].data

\* C7: only the latest user message is read; userContext is the text of its last text
\* part and every data-derived field reflects only its last data part: nothing an
\* earlier data part supplied survives a later one.
C7_Claim ==
    (pc # "idle" /\ ~NoUserInput(task)) =>
        /\ prompt_input.error = Absent
        /\ prompt_input.userContext =
             IF TextIdx = {} THEN Absent ELSE Str(LatestParts[LastOf(TextIdx)].text)
        /\ DataIdx # {} =>
            /\ prompt_input.sector = Get(LastData.sector, Str(<<"UNKNOWN_SECTOR">>))
            /\ prompt_input.focus = Get(LastData.focus, Str(<<"UNKNOWN_FOCUS">>))
            /\ prompt_input.riskFactors = Get(LastData.riskFactors, List(<<>>))
            /\ prompt_input.summaryLength = Get(LastData.summaryLength, Num("200"))
            /\ prompt_input.extraContext = LastData.extraContext

\* a request with sector, focus, a non-empty list of risk factor strings and a length
FullRequest(d) ==
    /\ d.sector # Absent /\ d.focus # Absent /\ d.summaryLength # Absent
    /\ d.riskFactors.t = "list" /\ d.riskFactors.items # <<>>
    /\ \A i \in 1..Len(d.riskFactors.items) : d.riskFactors.items[i].t = "str"
\* the risk factors r1, r2, ... as the text "r1, r2, ..."
Listed(r) == JoinAtoms([i \in 1..Len(r.items) |-> r.items[i].s], <<", ">>)
\* the prompt names the request d
PromptNames(d) ==
    /\ Contains(prompt, PyStr(d.sector) \o <<" sector">>)
    /\ Contains(prompt, PyStr(d.focus))
    /\ Contains(prompt, PyStr(d.summaryLength) \o <<" words">>)
    /\ Contains(prompt, Listed(d.riskFactors))

\* C9 as claimed: if the latest user message contains a data part with sector s, focus
\* f, risk factors r and length n, the prompt contains "<s> sector", f, "<n> words"
\* and r joined by ", ".
C9_Original ==
    (pc = "built" /\ ~NoUserInput(task)) =>
        \A i \in DataIdx : FullRequest(LatestParts[i].data) => PromptNames(LatestParts[i].data)

\* C9 amended: if the last non-empty data part of the latest user message has sector
\* s, focus f, a non-empty list r of strings and length n, the prompt is built and
\* contains "<s> sector", f, "<n> words" and r joined by ", "; for the energy request
\* these are "energy sector", "renewables", "100 words", "regulation, oil prices".
C9_Amended ==
    (pc \in {"built", "escaped"} /\ ~NoUserInput(task) /\ DataIdx # {}) =>
        /\ FullRequest(LastData) => pc = "built" /\ PromptNames(LastData)
        /\ LastData = EnergyData =>
            /\ Contains(prompt, <<"energy", " sector">>)
            /\ Contains(prompt, <<"renewables">>)
            /\ Contains(prompt, <<"100", " words">>)
            /\ Contains(prompt, <<"regulation", ", ", "oil prices">>)

\* the energy request came last, after a data part for another sector
C9_Witness ==
    /\ pc = "built"
    /\ ~NoUserInput(task)
    /\ Len(LatestParts) = 2
    /\ LatestParts[1].kind = "data"
    /\ LatestParts[1].data.sector = Str(<<"retail">>)
    /\ LatestParts[2] = DataPart(EnergyData)

====
